---- MODULE Spec2Model ----
(***************************************************************************)
(* Model of the label generator: the identifier codec and template filler  *)
(* (engine/templater.py), the document renderer, grid composer and batch   *)
(* packager (engine/pdf.py), the barcode encoder's input checks            *)
(* (engine/barcode.py) and the batch generator each_pdf (app.py).          *)
(*                                                                         *)
(* Text is a sequence of code points (Python str); a character is its      *)
(* code point, so chr(int(hex, 16)) is computed, not looked up.            *)
(***************************************************************************)
EXTENDS Integers, Sequences, FiniteSets, TLC

VARIABLES
    \* identifier codec: the raw identifier, its decoding, the call's position
    rawId, decoded, dpc,
    \* template filler: fill_svg's arguments, its position and what it returned
    template, values, barcodeUri, fpc, filled,
    \* batch run (app.py "Generate ALL (ZIP)"): the table's row count, the
    \* barcode column mapping, the barcode type, whether cairosvg is installed
    total, barcodeCol, barcodeType, cairo,
    \* each_pdf's locals: row number i, barcode_uri, svg_txt, pdf_bytes, and
    \* the progress bar
    bpc, cur, barcodeUriRow, svgTxt, pdfBytes, progress,
    \* svg_to_pdf's conversions attempted for the current document
    attempts,
    \* what each_pdf has yielded, the item zip_pdfs holds, the archive's
    \* members, zip_pdfs's return value, the exception that left zip_pdfs
    yielded, item, archive, zipBytes, failure,
    \* per row: whether its barcode payload was rejected
    rejected,
    \* zip_pdfs called on a given list of entries
    entries,
    \* svgs_grid_to_pdf: its arguments (page_size, cols, margin_mm, gutter_mm,
    \* the intrinsic sizes of svg_texts), its position, its locals cols, rows,
    \* cell_w, cell_h and the rectangles drawn on the canvas
    pageSize, colsArg, marginMm, gutterMm, docs, gpc, gcols, grows, cellW, cellH, drawn

decVars == <<rawId, decoded, dpc>>
fillVars == <<template, values, barcodeUri, fpc, filled>>
batchVars ==
    <<total, barcodeCol, barcodeType, cairo, bpc, cur, barcodeUriRow, svgTxt, pdfBytes,
      progress, attempts, yielded, item, archive, zipBytes, failure, rejected, entries>>
vars ==
    <<rawId, decoded, dpc, template, values, barcodeUri, fpc, filled,
      total, barcodeCol, barcodeType, cairo, bpc, cur, barcodeUriRow, svgTxt, pdfBytes,
      progress, attempts, yielded, item, archive, zipBytes, failure, rejected, entries,
      pageSize, colsArg, marginMm, gutterMm, docs, gpc, gcols, grows, cellW, cellH, drawn>>
gridVars ==
    <<pageSize, colsArg, marginMm, gutterMm, docs, gpc, gcols, grows, cellW, cellH, drawn>>

\* the variables of a component that is not running
DecIdle == rawId = <<>> /\ decoded = <<>> /\ dpc = "idle"
FillIdle ==
    /\ template = <<>>
    /\ values = <<>>
    /\ barcodeUri = <<>>
    /\ fpc = "idle"
    /\ filled = <<>>
BatchIdle ==
    /\ total = 0
    /\ barcodeCol = FALSE
    /\ barcodeType = "EAN13"
    /\ cairo = FALSE
    /\ bpc = "idle"
    /\ cur = 0
    /\ barcodeUriRow = <<>>
    /\ svgTxt = <<>>
    /\ pdfBytes = <<>>
    /\ progress = 0
    /\ attempts = <<>>
    /\ yielded = <<>>
    /\ item = <<>>
    /\ archive = <<>>
    /\ zipBytes = <<>>
    /\ failure = "none"
    /\ rejected = <<>>
    /\ entries = <<>>
GridIdle ==
    /\ pageSize = "A4"
    /\ colsArg = 0
    /\ marginMm = 0
    /\ gutterMm = 0
    /\ docs = <<>>
    /\ gpc = "idle"
    /\ gcols = 0
    /\ grows = 0
    /\ cellW = <<0, 1>>
    /\ cellH = <<0, 1>>
    /\ drawn = <<>>

(***************************************************************************)
(* Generic helpers                                                         *)
(***************************************************************************)
RECURSIVE Concat(_)
Concat(ss) == IF ss = <<>> THEN <<>> ELSE Head(ss) \o Concat(Tail(ss))

SeqsUpTo(S, n) == UNION {[1..k -> S] : k \in 0..n}

(***************************************************************************)
(* Characters used by the source, as code points                           *)
(***************************************************************************)
chUnderscore == 95
chLowerX == 120

(***************************************************************************)
(* engine/templater.py: _decode_ai_id                                      *)
(*   re.sub(r"_x([0-9A-Fa-f]{4})_", lambda m: chr(int(m.group(1), 16)), s) *)
(***************************************************************************)
IsHex(c) == c \in (48..57) \cup (65..70) \cup (97..102)

HexVal(c) == IF c <= 57 THEN c - 48 ELSE IF c <= 70 THEN c - 55 ELSE c - 87

\* the regular expression matches at position i of s
MatchAt(s, i) ==
    /\ i >= 1
    /\ i + 6 <= Len(s)
    /\ s[i] = chUnderscore
    /\ s[i + 1] = chLowerX
    /\ \A k \in 2..5 : IsHex(s[i + k])
    /\ s[i + 6] = chUnderscore

\* chr(int(m.group(1), 16)) for the match at position i
EscapeChar(s, i) ==
    HexVal(s[i + 2]) * 4096 + HexVal(s[i + 3]) * 256 + HexVal(s[i + 4]) * 16 + HexVal(s[i + 5])

\* a scan that resumes on the closing underscore of a match
RECURSIVE SubFromSharing(_, _)
SubFromSharing(s, i) ==
    IF i > Len(s) THEN <<>>
    ELSE IF MatchAt(s, i) THEN <<EscapeChar(s, i)>> \o SubFromSharing(s, i + 6)
    ELSE <<s[i]>> \o SubFromSharing(s, i + 1)

\* re.sub scans left to right; a match consumes its seven characters and the
\* scan resumes after it, the replacement is not scanned again
RECURSIVE SubFrom(_, _)
SubFrom(s, i) ==
    IF i > Len(s) THEN <<>>
    ELSE IF MatchAt(s, i) THEN <<EscapeChar(s, i)>> \o SubFrom(s, i + 7)
    ELSE <<s[i]>> \o SubFrom(s, i + 1)

decode_ai_id(s) == SubFrom(s, 1)

(***************************************************************************)
(* Identifier codec: inputs and specification                              *)
(***************************************************************************)
MaxSegs == 5

\* "_", "x0041", "x005f", "x5F", "a"
IdSegments ==
    { <<95>>, <<120, 48, 48, 52, 49>>, <<120, 48, 48, 53, 102>>, <<120, 53, 70>>, <<97>> }

RawIds == { Concat(ss) : ss \in SeqsUpTo(IdSegments, MaxSegs) }

DecInit ==
    /\ rawId \in RawIds
    /\ decoded = <<>>
    /\ dpc = "raw"
    /\ FillIdle
    /\ BatchIdle
    /\ GridIdle

Decode ==
    /\ dpc = "raw"
    /\ decoded' = decode_ai_id(rawId)
    /\ dpc' = "decoded"
    /\ UNCHANGED <<rawId, fillVars, batchVars, gridVars>>

DecNext == Decode

SpecDecode == DecInit /\ [][DecNext]_vars

(***************************************************************************)
(* engine/templater.py: the template filler                                *)
(*                                                                         *)
(* A document is the sequence of its elements in document order            *)
(* (root.iter()); element 1 is the root. An element is a record            *)
(*   tag, id, maxlen (data-maxlen), text, href, xhref (xlink:href), parent *)
(* where an absent attribute is the empty string (the code tests `if _id`, *)
(* `if maxlen`, which treat absent and empty alike), parent is the index   *)
(* of the parent element, 0 for the root and -1 for an element that        *)
(* el.remove has detached from its parent.                                 *)
(***************************************************************************)
sVarPrefix == <<118, 97, 114, 95>>                                  \* "var_"
sVarA == <<118, 97, 114, 95, 97>>                                   \* "var_a"
sVarB == <<118, 97, 114, 95, 98>>                                   \* "var_b"
sVarAEscaped == <<118, 97, 114, 95, 120, 48, 48, 53, 70, 95, 97>>   \* "var_x005F_a"
sOpen == <<91, 91>>                                                 \* "[["
sClose == <<93, 93>>                                                \* "]]"
sOld == <<111, 108, 100>>                                           \* "old"
sEllipsis == <<8230>>                                               \* U+2026
\* the three characters U+00E2 U+20AC U+00A6 the source file holds between
\* the quotes on line 41
sMarker == <<226, 8364, 166>>
\* "var_BarcodeImg"
sBarcodeImg == <<118, 97, 114, 95, 66, 97, 114, 99, 111, 100, 101, 73, 109, 103>>
\* "var_Barcode"
sBarcode == <<118, 97, 114, 95, 66, 97, 114, 99, 111, 100, 101>>
\* "_Image_var_Barcode"
sImageBarcode ==
    <<95, 73, 109, 97, 103, 101, 95, 118, 97, 114, 95, 66, 97, 114, 99, 111, 100, 101>>
\* "var_x5F_BarcodeImg"
sX5FBarcodeImg ==
    <<118, 97, 114, 95, 120, 53, 70, 95, 66, 97, 114, 99, 111, 100, 101, 73, 109, 103>>
\* "var_x005F_BarcodeImg", the canonical name as an authoring tool escapes it
sBarcodeImgEscaped ==
    <<118, 97, 114, 95, 120, 48, 48, 53, 70, 95, 66, 97, 114, 99, 111, 100, 101, 73, 109, 103>>
sDataUri == <<100, 97, 116, 97, 58>>                                \* "data:"

\* the names fill_svg looks the barcode slot up under, in order
SlotNames == <<sBarcodeImg, sBarcode, sImageBarcode, sX5FBarcodeImg>>

\* s.startswith(t) at position i
OccursAt(s, t, i) ==
    /\ i + Len(t) - 1 <= Len(s)
    /\ \A k \in 1..Len(t) : s[i + k - 1] = t[k]

\* str.replace(old, new) for a non-empty old: left to right, without overlap,
\* the replacement is not scanned again
RECURSIVE ReplaceFrom(_, _, _, _)
ReplaceFrom(s, old, new, i) ==
    IF i > Len(s) THEN <<>>
    ELSE IF OccursAt(s, old, i) THEN new \o ReplaceFrom(s, old, new, i + Len(old))
    ELSE <<s[i]>> \o ReplaceFrom(s, old, new, i + 1)

StrReplace(s, old, new) == ReplaceFrom(s, old, new, 1)

Contains(s, t) == \E i \in 1..Len(s) : OccursAt(s, t, i)

Token(k) == sOpen \o k \o sClose

\* _token_fill's list of pairs: the items, then the items with every "var_"
\* removed from the key
TokenPairs(vals) ==
    vals \o [i \in 1..Len(vals) |-> <<StrReplace(vals[i][1], sVarPrefix, <<>>), vals[i][2]>>]

RECURSIVE TokenFillFrom(_, _, _)
TokenFillFrom(s, pairs, i) ==
    IF i > Len(pairs) THEN s
    ELSE TokenFillFrom(StrReplace(s, Token(pairs[i][1]), pairs[i][2]), pairs, i + 1)

\* _token_fill on one stretch of the template text
token_fill(s, vals) == TokenFillFrom(s, TokenPairs(vals), 1)

\* _token_fill on the template, then etree.fromstring: the keys and values of
\* the model hold no markup character, so a token never spans two fields and
\* the replacement is done field by field
ParseFilled(doc, vals) ==
    [i \in 1..Len(doc) |->
        [doc[i] EXCEPT !.id = token_fill(@, vals),
                       !.maxlen = token_fill(@, vals),
                       !.text = token_fill(@, vals),
                       !.href = token_fill(@, vals),
                       !.xhref = token_fill(@, vals)]]

\* idx.get(name) for the index fill_svg builds: the last element whose decoded
\* identifier is name, 0 for None
IdxGet(doc, name) ==
    LET S == { i \in 1..Len(doc) : doc[i].id # <<>> /\ decode_ai_id(doc[i].id) = name }
    IN IF S = {} THEN 0 ELSE CHOOSE i \in S : \A j \in S : j <= i

RECURSIVE IsDescendant(_, _, _)
IsDescendant(doc, d, a) ==
    /\ doc[d].parent >= 1
    /\ (doc[d].parent = a \/ IsDescendant(doc, doc[d].parent, a))

\* _first(node, ".//svg:<tag>"): the first descendant with that tag, 0 for None
First(doc, node, tag) ==
    LET S == { d \in 1..Len(doc) : IsDescendant(doc, d, node) /\ doc[d].tag = tag }
    IN IF S = {} THEN 0 ELSE CHOOSE d \in S : \A e \in S : d <= e

ensure_text(doc, node) == IF doc[node].tag = "text" THEN node ELSE First(doc, node, "text")

ensure_image(doc, node) == IF doc[node].tag = "image" THEN node ELSE First(doc, node, "image")

IsDigits(s) == Len(s) >= 1 /\ \A i \in 1..Len(s) : s[i] \in 48..57

RECURSIVE DigitsValue(_)
DigitsValue(s) ==
    IF s = <<>> THEN 0 ELSE 10 * DigitsValue(SubSeq(s, 1, Len(s) - 1)) + (s[Len(s)] - 48)

\* int(maxlen) succeeds: an optional sign and decimal digits
IntParses(s) ==
    \/ IsDigits(s)
    \/ Len(s) >= 2 /\ s[1] \in {43, 45} /\ IsDigits(Tail(s))

IntValue(s) ==
    IF IsDigits(s) THEN DigitsValue(s)
    ELSE IF s[1] = 45 THEN 0 - DigitsValue(Tail(s)) ELSE DigitsValue(Tail(s))

Max(a, b) == IF a >= b THEN a ELSE b
Min(a, b) == IF a <= b THEN a ELSE b

\* value[:k]
Prefix(s, k) == SubSeq(s, 1, Min(Len(s), k))

\* the text _set_text writes for an element whose data-maxlen attribute is
\* maxlen
WrittenText(maxlen, value) ==
    IF maxlen # <<>> /\ IntParses(maxlen) /\ Len(value) > IntValue(maxlen)
    THEN Prefix(value, Max(0, IntValue(maxlen) - 1)) \o sMarker
    ELSE value

\* _set_text: the children are removed, the text is set
set_text(doc, t, value) ==
    [i \in 1..Len(doc) |->
        IF i = t THEN [doc[i] EXCEPT !.text = WrittenText(doc[t].maxlen, value)]
        ELSE IF doc[i].parent = t THEN [doc[i] EXCEPT !.parent = -1]
        ELSE doc[i]]

\* the loop over values.items(); idx was built from the parsed document. st is
\* the document with the log of the writes made so far
RECURSIVE ApplyValues(_, _, _, _)
ApplyValues(st, parsed, vals, i) ==
    IF i > Len(vals) THEN st
    ELSE
        LET node == IdxGet(parsed, vals[i][1])
            tgt == IF node = 0 THEN 0 ELSE ensure_text(st.doc, node)
        IN IF tgt = 0 THEN ApplyValues(st, parsed, vals, i + 1)
           ELSE ApplyValues(
                   [doc |-> set_text(st.doc, tgt, vals[i][2]),
                    writes |-> Append(st.writes,
                                      [el |-> tgt, maxlen |-> st.doc[tgt].maxlen,
                                       value |-> vals[i][2],
                                       written |-> WrittenText(st.doc[tgt].maxlen, vals[i][2])])],
                   parsed, vals, i + 1)

\* bool(element) in lxml: an element is true when it has children
Truthy(doc, e) == e # 0 /\ \E d \in 1..Len(doc) : doc[d].parent = e

\* idx.get(n1) or idx.get(n2) or ...: the first true operand, else the last
RECURSIVE OrChain(_, _, _, _)
OrChain(doc, parsed, names, i) ==
    LET e == IdxGet(parsed, names[i])
    IN IF i = Len(names) \/ Truthy(doc, e) THEN e ELSE OrChain(doc, parsed, names, i + 1)

SelectSlot(doc, parsed) == OrChain(doc, parsed, SlotNames, 1)

\* the same lookup with `is not None` tests
SelectSlotNotNone(doc, parsed) ==
    LET S == { i \in 1..Len(SlotNames) : IdxGet(parsed, SlotNames[i]) # 0 }
    IN IF S = {} THEN 0 ELSE IdxGet(parsed, SlotNames[CHOOSE i \in S : \A j \in S : i <= j])

set_href(doc, img, uri) ==
    [i \in 1..Len(doc) |->
        IF i = img THEN [doc[i] EXCEPT !.href = uri, !.xhref = uri] ELSE doc[i]]

RECURSIVE Attached(_, _)
Attached(doc, i) == i = 1 \/ (doc[i].parent >= 1 /\ Attached(doc, doc[i].parent))

\* etree.tostring(root): the elements still in the tree, in document order
Serialize(doc) == [i \in 1..Len(doc) |-> IF Attached(doc, i) THEN doc[i] ELSE [tag |-> "removed"]]

\* fill_svg. The result keeps, beside the returned text, the writes made, the
\* slot element selected and the image element set (0 for None)
fill_svg(doc, vals, uri) ==
    LET parsed == ParseFilled(doc, vals)
        st == ApplyValues([doc |-> parsed, writes |-> <<>>], parsed, vals, 1)
        node == IF uri # <<>> THEN SelectSlot(st.doc, parsed) ELSE 0
        img == IF node # 0 THEN ensure_image(st.doc, node) ELSE 0
        final == IF img # 0 THEN set_href(st.doc, img, uri) ELSE st.doc
    IN [text |-> Serialize(final), doc |-> final, parsed |-> parsed,
        writes |-> st.writes, slot |-> node, img |-> img]

(***************************************************************************)
(* Template filler: inputs and specification                               *)
(***************************************************************************)
MaxKeys == 2

Elem(tag, id, maxlen, text, parent) ==
    [tag |-> tag, id |-> id, maxlen |-> maxlen, text |-> text,
     href |-> <<>>, xhref |-> <<>>, parent |-> parent]

RootElem == Elem("svg", <<>>, <<>>, <<>>, 0)

\* data-maxlen attributes: absent, "2", "0", "-1", "x"
MaxLenAttrs == { <<>>, <<50>>, <<48>>, <<45, 49>>, <<120>> }

\* text content of a template's text element: "old", "[[var_a]]", "[[a]]"
TemplateTexts == { sOld, Token(sVarA), Token(<<97>>) }

\* replacement values: "", "ab", "abc", "[[var_b]]"
ValueTexts == { <<>>, <<97, 98>>, <<97, 98, 99>>, Token(sVarB) }

Keys == { sVarA, sVarB }

\* the text part of a template whose first o elements are given: nothing, a
\* text element, or a group holding a text element with a span inside
TextBlocks(o) ==
    { <<>> }
    \cup { <<Elem("text", id, ml, txt, 1)>> :
              id \in { <<>>, sVarA, sVarAEscaped }, ml \in MaxLenAttrs, txt \in TemplateTexts }
    \cup { <<Elem("g", id, <<>>, <<>>, 1), Elem("text", <<>>, ml, sOld, o + 1),
             Elem("tspan", <<>>, <<>>, sOld, o + 2)>> :
              id \in { sVarA, sVarAEscaped }, ml \in MaxLenAttrs }

\* the barcode part of a template whose first o elements are given
BarcodeBlocks(o) ==
    { <<>>,
      <<Elem("image", sBarcodeImg, <<>>, <<>>, 1)>>,
      <<Elem("image", sBarcodeImgEscaped, <<>>, <<>>, 1)>>,
      <<Elem("image", sBarcodeImg, <<>>, <<>>, 1), Elem("title", <<>>, <<>>, sOld, o + 1)>>,
      <<Elem("g", sBarcodeImg, <<>>, <<>>, 1), Elem("image", <<>>, <<>>, <<>>, o + 1)>>,
      <<Elem("g", sBarcodeImg, <<>>, <<>>, 1), Elem("rect", <<>>, <<>>, <<>>, o + 1)>>,
      <<Elem("g", sBarcode, <<>>, <<>>, 1), Elem("image", <<>>, <<>>, <<>>, o + 1)>>,
      <<Elem("g", sBarcode, <<>>, <<>>, 1), Elem("image", <<>>, <<>>, <<>>, o + 1),
        Elem("image", sBarcodeImg, <<>>, <<>>, 1)>>,
      <<Elem("image", sImageBarcode, <<>>, <<>>, 1)>>,
      <<Elem("image", sX5FBarcodeImg, <<>>, <<>>, 1)>> }

Templates ==
    UNION { { <<RootElem>> \o tb \o bb : bb \in BarcodeBlocks(1 + Len(tb)) } :
            tb \in TextBlocks(1) }

\* a dict: its items in insertion order, the keys distinct
ValueMaps ==
    { m \in SeqsUpTo(Keys \X ValueTexts, MaxKeys) :
        \A i, j \in 1..Len(m) : i # j => m[i][1] # m[j][1] }

FillInit ==
    /\ template \in Templates
    /\ values \in ValueMaps
    /\ barcodeUri \in { <<>>, sDataUri }
    /\ fpc = "called"
    /\ filled = <<>>
    /\ DecIdle
    /\ BatchIdle
    /\ GridIdle

FillSvg ==
    /\ fpc = "called"
    /\ filled' = fill_svg(template, values, barcodeUri)
    /\ fpc' = "returned"
    /\ UNCHANGED <<template, values, barcodeUri, decVars, batchVars, gridVars>>

FillNext == FillSvg

SpecFill == FillInit /\ [][FillNext]_vars

(***************************************************************************)
(* C1, C2, C3: the template filler                                         *)
(***************************************************************************)
\* C1: for every text element that declares an integer maximum length n and
\* every replacement value v, the text written has at most n characters, and
\* when v has more than n characters it is the first n-1 characters of v
\* followed by a single ellipsis character.
C1_WrittenWithinMaxLen ==
    fpc = "returned" =>
        \A i \in 1..Len(filled.writes) :
            LET w == filled.writes[i]
            IN (w.maxlen # <<>> /\ IntParses(w.maxlen)) =>
                  /\ Len(w.written) <= IntValue(w.maxlen)
                  /\ Len(w.value) > IntValue(w.maxlen)
                        => w.written = Prefix(w.value, IntValue(w.maxlen) - 1) \o sEllipsis

\* C2: when a barcode image is given and an element's decoded identifier is
\* var_BarcodeImg, that element is the slot selected, and its image element
\* (itself when it is an image element, else its first image descendant) ends
\* with href and xlink:href equal to the data URI.
C2_CanonicalSlotFilled ==
    (fpc = "returned" /\ barcodeUri # <<>> /\ IdxGet(filled.parsed, sBarcodeImg) # 0) =>
        LET c == IdxGet(filled.parsed, sBarcodeImg)
            im == ensure_image(filled.doc, c)
        IN /\ filled.slot = c
           /\ im # 0 => (filled.doc[im].href = barcodeUri /\ filled.doc[im].xhref = barcodeUri)

\* k with its placeholder prefix stripped
StripPrefix(k) == IF OccursAt(k, sVarPrefix, 1) THEN SubSeq(k, Len(sVarPrefix) + 1, Len(k)) ELSE k

\* the template text holds the token [[k]]
HasToken(doc, k) ==
    \E e \in 1..Len(doc) :
        \E f \in { doc[e].id, doc[e].maxlen, doc[e].text, doc[e].href, doc[e].xhref } :
            Contains(f, Token(k))

\* the dict without its i-th item
WithoutItem(m, i) == SubSeq(m, 1, i - 1) \o SubSeq(m, i + 1, Len(m))

\* C3: for every key k of the value map such that no element's decoded
\* identifier is k and the template holds neither [[k]] nor [[k without its
\* prefix]], fill_svg returns the text it returns for the map without k.
C3_UnmatchedKeyIgnored ==
    fpc = "returned" =>
        \A i \in 1..Len(values) :
            LET k == values[i][1]
            IN (/\ \A e \in 1..Len(template) :
                      template[e].id = <<>> \/ decode_ai_id(template[e].id) # k
                /\ ~ HasToken(template, k)
                /\ ~ HasToken(template, StripPrefix(k)))
               => filled.text = fill_svg(template, WithoutItem(values, i), barcodeUri).text

(***************************************************************************)
(* C10: occurrences of the escape pattern                                  *)
(***************************************************************************)
\* positions where the pattern _xHHHH_ occurs in s
Occurrences(s) == { i \in 1..Len(s) : MatchAt(s, i) }

\* Two occurrences can overlap only by sharing one underscore, six positions
\* apart. BackChain(s, i) is the number of occurrences chained to the left of
\* position i through shared underscores.
BackChain(s, i) ==
    CHOOSE k \in 0..Len(s) :
        /\ \A j \in 1..k : (i - 6 * j) \in Occurrences(s)
        /\ (i - 6 * (k + 1)) \notin Occurrences(s)

\* the occurrences a left-to-right scan without overlap replaces
Replaced(s) == { i \in Occurrences(s) : BackChain(s, i) % 2 = 0 }

\* the output is the input with exactly the occurrences of R replaced
IsReplacementOf(out, s, R) ==
    /\ Len(out) = Len(s) - 6 * Cardinality(R)
    /\ \A i \in R : out[i - 6 * Cardinality({ j \in R : j < i })] = EscapeChar(s, i)
    /\ \A p \in 1..Len(s) :
          (~ \E i \in R : i <= p /\ p <= i + 6)
              => out[p - 6 * Cardinality({ j \in R : j < p })] = s[p]

\* position p of s lies inside some occurrence
InOccurrence(s, p) == \E i \in Occurrences(s) : i <= p /\ p <= i + 6

\* index in the output of input position p when every occurrence, chained or
\* not, becomes one character and the characters outside all occurrences stay
FullIndex(s, p) ==
    1 + Cardinality({ q \in 1..(p - 1) : ~ InOccurrence(s, q) })
      + Cardinality({ j \in Occurrences(s) : j < p })

IsFullReplacement(out, s) ==
    /\ Len(out) = Cardinality({ q \in 1..Len(s) : ~ InOccurrence(s, q) })
                    + Cardinality(Occurrences(s))
    /\ \A i \in Occurrences(s) : out[FullIndex(s, i)] = EscapeChar(s, i)
    /\ \A p \in 1..Len(s) : ~ InOccurrence(s, p) => out[FullIndex(s, p)] = s[p]

\* C10 (as stated): the decoder replaces every occurrence of _xHHHH_ by the
\* character with that code point, including adjacent occurrences that share
\* an underscore, and returns a string without the pattern unchanged.
C10_EveryOccurrenceReplaced ==
    dpc = "decoded" =>
        /\ Occurrences(rawId) = {} => decoded = rawId
        /\ IsFullReplacement(decoded, rawId)

\* C10 (amended): the decoder replaces every occurrence found by a
\* left-to-right scan without overlap - an occurrence whose leading underscore
\* is the trailing underscore of a replaced occurrence stays as it is - and
\* returns a string without the pattern unchanged.
C10_NonOverlappingReplaced ==
    dpc = "decoded" =>
        /\ Occurrences(rawId) = {} => decoded = rawId
        /\ IsReplacementOf(decoded, rawId, Replaced(rawId))

\* an identifier with two chained occurrences has been decoded
C10_Witness ==
    /\ dpc = "decoded"
    /\ \E i \in Occurrences(rawId) : (i + 6) \in Occurrences(rawId)
    /\ Replaced(rawId) # Occurrences(rawId)
    /\ IsReplacementOf(decoded, rawId, Replaced(rawId))

(***************************************************************************)
(* engine/barcode.py: generate_barcode_png's checks of its input           *)
(***************************************************************************)
IsSpace(c) == c \in {9, 10, 11, 12, 13, 32}

RECURSIVE LStrip(_)
LStrip(s) == IF s # <<>> /\ IsSpace(Head(s)) THEN LStrip(Tail(s)) ELSE s

RECURSIVE RStrip(_)
RStrip(s) ==
    IF s # <<>> /\ IsSpace(s[Len(s)]) THEN RStrip(SubSeq(s, 1, Len(s) - 1)) ELSE s

\* str.strip()
Strip(s) == RStrip(LStrip(s))

IsDigitChar(c) == c \in 48..57

\* ''.join(ch for ch in data if ch.isdigit())
DigitsOf(s) == SelectSeq(s, IsDigitChar)

\* kind.upper() for the kinds of the barcode type selector
KindUpper(kind) == IF kind = "Code128" THEN "CODE128" ELSE kind

\* generate_barcode_png: <<"png", symbology, encoded payload>>, or
\* <<"ValueError">> when the payload is rejected
generate_barcode_png(data, kind) ==
    LET d == Strip(data)
    IN IF d = <<>> THEN <<"ValueError">>
       ELSE IF KindUpper(kind) = "EAN13"
            THEN IF Len(DigitsOf(d)) \notin {12, 13} THEN <<"ValueError">>
                 ELSE <<"png", "ean13", SubSeq(DigitsOf(d), 1, 12)>>
       ELSE IF KindUpper(kind) = "CODE128" THEN <<"png", "code128", d>>
       ELSE <<"ValueError">>

\* utils.png_bytes_to_data_uri
png_bytes_to_data_uri(png) == <<"data:image/png;base64", png>>

(***************************************************************************)
(* engine/utils.py: safe_filename                                          *)
(***************************************************************************)
sPdf == <<46, 112, 100, 102>>                                       \* ".pdf"
sFile == <<102, 105, 108, 101>>                                     \* "file"

\* re.sub(r"\s+", "_", name): a run of whitespace becomes one underscore
RECURSIVE CollapseSpace(_, _)
CollapseSpace(s, i) ==
    IF i > Len(s) THEN <<>>
    ELSE IF IsSpace(s[i])
         THEN IF i > 1 /\ IsSpace(s[i - 1]) THEN CollapseSpace(s, i + 1)
              ELSE <<95>> \o CollapseSpace(s, i + 1)
    ELSE <<s[i]>> \o CollapseSpace(s, i + 1)

\* [A-Za-z0-9._-]
IsSafeChar(c) == c \in (65..90) \cup (97..122) \cup (48..57) \cup {46, 95, 45}

\* str.lower() on one character
LowerChar(c) == IF c \in 65..90 THEN c + 32 ELSE c

EndsWithPdf(s) ==
    /\ Len(s) >= Len(sPdf)
    /\ \A k \in 1..Len(sPdf) : LowerChar(s[Len(s) - Len(sPdf) + k]) = sPdf[k]

safe_filename(name) ==
    LET n1 == IF name = <<>> THEN sFile ELSE name
        n2 == SelectSeq(CollapseSpace(n1, 1), IsSafeChar)
    IN IF EndsWithPdf(n2) THEN n2 ELSE n2 \o sPdf

\* f"{base}_{idx}.pdf" for the row with 0-based index idx < 10
RowFileName(base, idx) == safe_filename(base \o <<95, 48 + idx>> \o sPdf)

(***************************************************************************)
(* engine/pdf.py: svg_to_pdf's fallback on failure, zip_pdfs's archive     *)
(***************************************************************************)
\* what the cairosvg attempt can end in: the import fails when the engine is
\* not installed, else the conversion returns or raises
PrimaryOutcomes(installed) == IF installed THEN {"ok", "error"} ELSE {"missing"}

\* a handler that catches the failed import alone
AfterPrimaryImportOnly(outcome) ==
    IF outcome = "ok" THEN "return" ELSE IF outcome = "missing" THEN "fallback" ELSE "raise"

\* try: ... return cairosvg.svg2pdf(..) except Exception: pass
AfterPrimary(outcome) == IF outcome = "ok" THEN "return" ELSE "fallback"

\* the fallback has no handler: its result is returned, its exception leaves
\* svg_to_pdf
AfterFallback(outcome) == IF outcome = "ok" THEN "return" ELSE "raise"

\* a packager that keeps one member per name
writestr_dedup(arch, name, data) ==
    IF \E i \in 1..Len(arch) : arch[i][1] = name
    THEN [i \in 1..Len(arch) |-> IF arch[i][1] = name THEN <<name, data>> ELSE arch[i]]
    ELSE Append(arch, <<name, data>>)

\* zf.writestr(name, data): a member is added, whatever the archive holds
writestr(arch, name, data) == Append(arch, <<name, data>>)

\* ZipFile.read(name) on the archive: the name table maps a name to the member
\* written last under it
ZipRead(arch, name) ==
    LET S == { i \in 1..Len(arch) : arch[i][1] = name }
    IN arch[CHOOSE i \in S : \A j \in S : j <= i][2]

(***************************************************************************)
(* app.py: the batch run, zip_pdfs(each_pdf())                             *)
(***************************************************************************)
MaxRows == 2

\* barcode cells of a row: str(cell) is " ", "12345678901", "012345678905",
\* "4006381333931" or "A1"; the empty sequence stands for a missing cell (NaN)
BarcodeCells ==
    { <<>>, <<32>>,
      <<49, 50, 51, 52, 53, 54, 55, 56, 57, 48, 49>>,
      <<48, 49, 50, 51, 52, 53, 54, 55, 56, 57, 48, 53>>,
      <<52, 48, 48, 54, 51, 56, 49, 51, 51, 51, 57, 51, 49>>,
      <<65, 49>> }

\* PRODUCT_NAME of a row: "Tee", "A b"
BaseNames == { <<84, 101, 101>>, <<65, 32, 98>> }

\* a handler that lets the encoder's exception leave the row
AfterBarcodeUncaught(res) ==
    IF res[1] = "png" THEN [pc |-> "fill", uri |-> png_bytes_to_data_uri(res)]
    ELSE [pc |-> "failed", uri |-> <<>>]

\* try: png = ..; barcode_uri = .. except Exception: barcode_uri = None
AfterBarcode(res) ==
    IF res[1] = "png" THEN [pc |-> "fill", uri |-> png_bytes_to_data_uri(res)]
    ELSE [pc |-> "fill", uri |-> <<>>]

\* a consumer that collects the items before it writes any, list(items): the
\* generator is resumed at once while rows remain
AfterYieldCollect(i, n) == IF i < n THEN "pull" ELSE "write"

\* each_pdf is a generator: at yield it is suspended, whatever rows remain, and
\* the body of zip_pdfs' for loop runs on the item (pdf.py 42-43)
AfterYield(i, n) == "write"

BatchInit ==
    /\ total \in 0..MaxRows
    /\ barcodeCol \in BOOLEAN
    /\ barcodeType \in {"EAN13", "Code128"}
    /\ cairo \in BOOLEAN
    /\ bpc = "pull"
    /\ cur = 0
    /\ barcodeUriRow = <<>>
    /\ svgTxt = <<>>
    /\ pdfBytes = <<>>
    /\ progress = 0
    /\ attempts = <<>>
    /\ yielded = <<>>
    /\ item = <<>>
    /\ archive = <<>>
    /\ zipBytes = <<>>
    /\ failure = "none"
    /\ rejected = <<>>
    /\ entries = <<>>
    /\ DecIdle
    /\ FillIdle
    /\ GridIdle

\* zip_pdfs asks the generator for the next item; df.iterrows() has a row
NextRow ==
    /\ bpc = "pull"
    /\ cur < total
    /\ cur' = cur + 1
    /\ bpc' = "barcode"
    /\ UNCHANGED <<total, barcodeCol, barcodeType, cairo, barcodeUriRow, svgTxt, pdfBytes,
                   progress, attempts, yielded, item, archive, zipBytes, failure, rejected,
                   entries, decVars, fillVars, gridVars>>

\* app.py 264-270: the row's barcode
Barcode ==
    /\ bpc = "barcode"
    /\ \E cell \in BarcodeCells :
          IF barcodeCol /\ cell # <<>>
          THEN LET res == generate_barcode_png(cell, barcodeType)
                   nxt == AfterBarcode(res)
               IN /\ barcodeUriRow' = nxt.uri
                  /\ bpc' = nxt.pc
                  /\ failure' = IF nxt.pc = "failed" THEN "barcode" ELSE failure
                  /\ rejected' = Append(rejected, res[1] # "png")
          ELSE /\ barcodeUriRow' = <<>>
               /\ bpc' = "fill"
               /\ failure' = failure
               /\ rejected' = Append(rejected, FALSE)
    /\ UNCHANGED <<total, barcodeCol, barcodeType, cairo, cur, svgTxt, pdfBytes, progress,
                   attempts, yielded, item, archive, zipBytes, entries, decVars, fillVars, gridVars>>

\* app.py 273-274: fill_svg returns the filled text, or raises (the filled
\* text does not parse, a value holds a character XML forbids)
FillRow ==
    /\ bpc = "fill"
    /\ \E ok \in BOOLEAN :
          IF ok
          THEN /\ svgTxt' = <<"svg", cur, barcodeUriRow>>
               /\ bpc' = "primary"
               /\ failure' = failure
          ELSE /\ svgTxt' = svgTxt
               /\ bpc' = "failed"
               /\ failure' = "fill"
    /\ attempts' = <<>>
    /\ UNCHANGED <<total, barcodeCol, barcodeType, cairo, cur, barcodeUriRow, pdfBytes,
                   progress, yielded, item, archive, zipBytes, rejected, entries,
                   decVars, fillVars, gridVars>>

\* svg_to_pdf, pdf.py 13-17: the cairosvg attempt
RenderPrimary ==
    /\ bpc = "primary"
    /\ \E out \in PrimaryOutcomes(cairo) :
          /\ attempts' = Append(attempts, <<"primary", out>>)
          /\ bpc' = CASE AfterPrimary(out) = "return" -> "yield"
                      [] AfterPrimary(out) = "fallback" -> "fallback"
                      [] OTHER -> "failed"
          /\ pdfBytes' = IF AfterPrimary(out) = "return" THEN <<"pdf", "primary", svgTxt>>
                         ELSE pdfBytes
          /\ failure' = IF AfterPrimary(out) = "raise" THEN "render" ELSE failure
    /\ UNCHANGED <<total, barcodeCol, barcodeType, cairo, cur, barcodeUriRow, svgTxt,
                   progress, yielded, item, archive, zipBytes, rejected, entries,
                   decVars, fillVars, gridVars>>

\* svg_to_pdf, pdf.py 19-33: svglib and reportlab
RenderFallback ==
    /\ bpc = "fallback"
    /\ \E out \in {"ok", "error"} :
          /\ attempts' = Append(attempts, <<"fallback", out>>)
          /\ bpc' = IF AfterFallback(out) = "return" THEN "yield" ELSE "failed"
          /\ pdfBytes' = IF AfterFallback(out) = "return" THEN <<"pdf", "fallback", svgTxt>>
                         ELSE pdfBytes
          /\ failure' = IF AfterFallback(out) = "raise" THEN "render" ELSE failure
    /\ UNCHANGED <<total, barcodeCol, barcodeType, cairo, cur, barcodeUriRow, svgTxt,
                   progress, yielded, item, archive, zipBytes, rejected, entries,
                   decVars, fillVars, gridVars>>

\* app.py 278-281: the progress bar is moved and the item is yielded
YieldItem ==
    /\ bpc = "yield"
    /\ \E base \in BaseNames :
          /\ item' = <<RowFileName(base, cur - 1), pdfBytes>>
          /\ yielded' = Append(yielded, <<RowFileName(base, cur - 1), pdfBytes>>)
    /\ progress' = cur
    /\ bpc' = AfterYield(cur, total)
    /\ UNCHANGED <<total, barcodeCol, barcodeType, cairo, cur, barcodeUriRow, svgTxt,
                   pdfBytes, attempts, archive, zipBytes, failure, rejected, entries,
                   decVars, fillVars, gridVars>>

\* pdf.py 43: zf.writestr(name, data)
WriteEntry ==
    /\ bpc = "write"
    /\ archive' = writestr(archive, item[1], item[2])
    /\ item' = <<>>
    /\ bpc' = "pull"
    /\ UNCHANGED <<total, barcodeCol, barcodeType, cairo, cur, barcodeUriRow, svgTxt,
                   pdfBytes, progress, attempts, yielded, zipBytes, failure, rejected,
                   entries, decVars, fillVars, gridVars>>

\* the generator is exhausted: the archive is closed and its bytes returned
Exhausted ==
    /\ bpc = "pull"
    /\ cur = total
    /\ zipBytes' = <<"zip", archive>>
    /\ bpc' = "done"
    /\ UNCHANGED <<total, barcodeCol, barcodeType, cairo, cur, barcodeUriRow, svgTxt,
                   pdfBytes, progress, attempts, yielded, item, archive, failure, rejected,
                   entries, decVars, fillVars, gridVars>>

BatchNext ==
    \/ NextRow
    \/ Barcode
    \/ FillRow
    \/ RenderPrimary
    \/ RenderFallback
    \/ YieldItem
    \/ WriteEntry
    \/ Exhausted

SpecBatch == BatchInit /\ [][BatchNext]_vars

(***************************************************************************)
(* C4, C5, C9: the batch run                                               *)
(***************************************************************************)
\* both conversions have been attempted for the current document and failed
BothPathsFailed ==
    /\ Len(attempts) = 2
    /\ attempts[1][2] # "ok"
    /\ attempts[2][2] # "ok"

\* C4: in a batch run, a failure of both rendering paths while processing one
\* row is confined to that row: the exception does not leave the per-row
\* iteration, the batch goes on and zip_pdfs is not left by the exception.
C4_RenderFailureConfined ==
    BothPathsFailed => (bpc # "failed" /\ failure = "none")

\* the document of the j-th item yielded
YieldedSvg(j) == yielded[j][2][3]

\* C5: a row whose barcode payload the encoder rejects still yields its
\* label, filled without barcode image, and the batch goes on: the rejection
\* never leaves the row, the items yielded are those of the rows in row order,
\* one per row, and a run that ends has yielded one item for each of the
\* total rows, whichever rows had their payload rejected.
C5_BadBarcodeKeepsBatch ==
    /\ failure # "barcode"
    /\ (bpc \in {"fill", "primary", "fallback", "yield"} /\ rejected[cur])
          => barcodeUriRow = <<>>
    /\ \A j \in 1..Len(yielded) :
          /\ YieldedSvg(j)[2] = j
          /\ \E base \in BaseNames : yielded[j][1] = RowFileName(base, j - 1)
          /\ rejected[j] => YieldedSvg(j)[3] = <<>>
    /\ (failure = "none" /\ bpc \in {"barcode", "fill", "primary", "fallback", "yield"})
          => Len(yielded) = cur - 1
    /\ (failure = "none" /\ bpc \in {"write", "pull", "done"}) => Len(yielded) = cur
    /\ bpc = "done" => Len(yielded) = total

\* a run of at least two rows has ended; a row with a rejected payload and a
\* row with a barcode image were both yielded
C5_Witness ==
    /\ bpc = "done"
    /\ total >= 2
    /\ Len(yielded) = total
    /\ \E j \in 1..total : rejected[j] /\ YieldedSvg(j)[3] = <<>>
    /\ \E j \in 1..total : ~ rejected[j] /\ YieldedSvg(j)[3] # <<>>

\* C9: svg_to_pdf attempts the primary conversion first; when the engine is
\* missing or the conversion fails, the fallback is run on the same input and
\* its result returned; an error reaches the caller only when both paths
\* fail, and the fallback is never run when the primary path succeeds.
C9_PrimaryThenFallback ==
    /\ Len(attempts) <= 2
    /\ Len(attempts) >= 1 => attempts[1][1] = "primary"
    /\ Len(attempts) = 2 => (attempts[2][1] = "fallback" /\ attempts[1][2] # "ok")
    /\ (Len(attempts) = 1 /\ attempts[1][2] # "ok") => bpc = "fallback"
    /\ bpc = "fallback" => (Len(attempts) = 1 /\ attempts[1][2] # "ok")
    /\ failure = "render" => BothPathsFailed
    /\ bpc = "yield" =>
          /\ attempts # <<>>
          /\ attempts[Len(attempts)][2] = "ok"
          /\ pdfBytes = <<"pdf", attempts[Len(attempts)][1], svgTxt>>

\* a document whose primary conversion failed was converted by the fallback
C9_Witness ==
    /\ bpc = "yield"
    /\ Len(attempts) = 2
    /\ attempts[1][2] = "error"
    /\ pdfBytes = <<"pdf", "fallback", svgTxt>>

\* the PDFs generated so far: those yielded and the one svg_to_pdf has just
\* returned for the current row
Generated == Len(yielded) + (IF bpc = "yield" THEN 1 ELSE 0)

\* C11: in a batch run the PDFs are produced on demand and consumed one at a
\* time: while row i+1 is worked on (its barcode, fill and conversions) the
\* entries of rows 1..i are all in the archive, so at every point at most one
\* generated PDF is not yet written; the archive holds the items yielded, in
\* row order, each under exactly the file name and with the bytes yielded.
C11_OneAtATime ==
    /\ Generated - Len(archive) \in {0, 1}
    /\ bpc \in {"barcode", "fill", "primary", "fallback", "yield"}
          => (Len(archive) = cur - 1 /\ Len(yielded) = cur - 1)
    /\ bpc = "write" => (item = yielded[Len(yielded)] /\ Len(archive) = Len(yielded) - 1)
    /\ bpc \in {"pull", "done"} => Len(archive) = Len(yielded)
    /\ \A j \in 1..Len(archive) :
          /\ archive[j] = yielded[j]
          /\ archive[j][2][3][2] = j
    /\ bpc = "done" => zipBytes = <<"zip", archive>>

\* the PDF of the second row has been generated and is not yet written; the
\* entry of the first row is in the archive under the name it was yielded with
C11_Witness ==
    /\ bpc = "yield"
    /\ cur = 2
    /\ Generated = 2
    /\ Len(archive) = 1
    /\ archive[1] = yielded[1]
    /\ pdfBytes[3][2] = 2

(***************************************************************************)
(* zip_pdfs on a given list of entries                                     *)
(***************************************************************************)
MaxEntries == 3

\* file names "a.pdf", "b.pdf"
EntryNames == { <<97>> \o sPdf, <<98>> \o sPdf }

\* contents
EntryData == { <<"pdf", "x">>, <<"pdf", "y">> }

ZipInit ==
    /\ entries \in SeqsUpTo(EntryNames \X EntryData, MaxEntries)
    /\ total = 0
    /\ barcodeCol = FALSE
    /\ barcodeType = "EAN13"
    /\ cairo = FALSE
    /\ bpc = "zip_pull"
    /\ cur = 0
    /\ barcodeUriRow = <<>>
    /\ svgTxt = <<>>
    /\ pdfBytes = <<>>
    /\ progress = 0
    /\ attempts = <<>>
    /\ yielded = <<>>
    /\ item = <<>>
    /\ archive = <<>>
    /\ zipBytes = <<>>
    /\ failure = "none"
    /\ rejected = <<>>
    /\ DecIdle
    /\ FillIdle
    /\ GridIdle

\* pdf.py 42: the for loop takes the next entry
ZipTake ==
    /\ bpc = "zip_pull"
    /\ cur < Len(entries)
    /\ cur' = cur + 1
    /\ item' = entries[cur + 1]
    /\ bpc' = "zip_write"
    /\ UNCHANGED <<total, barcodeCol, barcodeType, cairo, barcodeUriRow, svgTxt, pdfBytes,
                   progress, attempts, yielded, archive, zipBytes, failure, rejected,
                   entries, decVars, fillVars, gridVars>>

\* pdf.py 43: zf.writestr(name, data)
ZipWrite ==
    /\ bpc = "zip_write"
    /\ archive' = writestr(archive, item[1], item[2])
    /\ item' = <<>>
    /\ bpc' = "zip_pull"
    /\ UNCHANGED <<total, barcodeCol, barcodeType, cairo, cur, barcodeUriRow, svgTxt,
                   pdfBytes, progress, attempts, yielded, zipBytes, failure, rejected,
                   entries, decVars, fillVars, gridVars>>

\* pdf.py 44: the archive is closed and its bytes returned
ZipReturn ==
    /\ bpc = "zip_pull"
    /\ cur = Len(entries)
    /\ zipBytes' = <<"zip", archive>>
    /\ bpc' = "zip_done"
    /\ UNCHANGED <<total, barcodeCol, barcodeType, cairo, cur, barcodeUriRow, svgTxt,
                   pdfBytes, progress, attempts, yielded, item, archive, failure, rejected,
                   entries, decVars, fillVars, gridVars>>

ZipNext == ZipTake \/ ZipWrite \/ ZipReturn

SpecZip == ZipInit /\ [][ZipNext]_vars

\* the members of the archive zip_pdfs returned
Members == zipBytes[2]

\* C6 (as stated): the archive of k entries has exactly k members, and for
\* every entry, reading the member with the entry's file name returns the
\* entry's bytes, also when two entries have the same file name.
C6_EveryEntryReadBack ==
    bpc = "zip_done" =>
        /\ Len(Members) = Len(entries)
        /\ \A i \in 1..Len(entries) : ZipRead(Members, entries[i][1]) = entries[i][2]

\* C6 (amended): the archive of k entries has exactly k members, the i-th
\* with the name and bytes of the i-th entry; reading by file name returns
\* the bytes of the last entry given under that name, so every entry whose
\* file name no later entry repeats is read back identical.
C6_LastEntryReadBack ==
    bpc = "zip_done" =>
        /\ Len(Members) = Len(entries)
        /\ \A i \in 1..Len(entries) :
              /\ Members[i] = entries[i]
              /\ (\A j \in (i + 1)..Len(entries) : entries[j][1] # entries[i][1])
                    => ZipRead(Members, entries[i][1]) = entries[i][2]
              /\ \E j \in i..Len(entries) :
                    /\ entries[j][1] = entries[i][1]
                    /\ \A l \in (j + 1)..Len(entries) : entries[l][1] # entries[i][1]
                    /\ ZipRead(Members, entries[i][1]) = entries[j][2]

\* an archive was returned for entries of which two have the same file name
\* and different bytes
C6_Witness ==
    /\ bpc = "zip_done"
    /\ Len(Members) = Len(entries)
    /\ \E i, j \in 1..Len(entries) :
          i < j /\ entries[i][1] = entries[j][1] /\ entries[i][2] # entries[j][2]

(***************************************************************************)
(* engine/pdf.py: svgs_grid_to_pdf                                         *)
(*                                                                         *)
(* Lengths are exact rationals <<numerator, denominator>> in lowest terms, *)
(* denominator positive, in millimetres: the code multiplies margin_mm,    *)
(* gutter_mm and the page sizes by the same factor mm, which no comparison *)
(* depends on.                                                             *)
(***************************************************************************)
Abs(x) == IF x < 0 THEN 0 - x ELSE x

RECURSIVE GCD(_, _)
GCD(a, b) == IF b = 0 THEN a ELSE GCD(b, a % b)

\* n / d for d # 0
Rat(n, d) ==
    LET g == GCD(Abs(n), Abs(d))
    IN IF d < 0 THEN <<(0 - n) \div g, (0 - d) \div g>> ELSE <<n \div g, d \div g>>

RInt(n) == <<n, 1>>
RAdd(a, b) == Rat(a[1] * b[2] + b[1] * a[2], a[2] * b[2])
RSub(a, b) == Rat(a[1] * b[2] - b[1] * a[2], a[2] * b[2])
RMul(a, b) == Rat(a[1] * b[1], a[2] * b[2])
RDiv(a, b) == Rat(a[1] * b[2], a[2] * b[1])
RLe(a, b) == a[1] * b[2] <= b[1] * a[2]
RLt(a, b) == a[1] * b[2] < b[1] * a[2]
RMin(a, b) == IF RLe(a, b) THEN a ELSE b
RMax(a, b) == IF RLe(a, b) THEN b ELSE a

\* reportlab.lib.pagesizes in millimetres, LETTER (8.5 x 11 inch) to the
\* nearest millimetre
PAGES == [A4 |-> <<210, 297>>, LETTER |-> <<216, 279>>, A3 |-> <<297, 420>>]

\* PAGES.get(page_size.upper(), A4)
PageOf(tag) == IF tag \in DOMAIN PAGES THEN PAGES[tag] ELSE PAGES["A4"]

\* cols = max(1, int(cols))
ClampCols(c) == Max(1, c)

\* rows = max(1, (n + cols - 1) // cols)
RowsFor(n, c) == Max(1, (n + c - 1) \div c)

\* (page - 2 * margin - (k - 1) * gutter) / k
CellSize(page, margin, gutter, k) == Rat(page - 2 * margin - (k - 1) * gutter, k)

\* float(getattr(drawing, "width", cell_w) or 1.0) for a drawing that has the
\* attribute
SizeOrOne(x) == IF x = 0 THEN RInt(1) ELSE RInt(x)

\* a scale that fills the cell in both directions
ScaleToFill(cw, ch, dw, dh) == RMax(RDiv(cw, dw), RDiv(ch, dh))

\* scale = min(cell_w / dw, cell_h / dh)
ScaleToFit(cw, ch, dw, dh) == RMin(RDiv(cw, dw), RDiv(ch, dh))

\* the rectangle document idx (0-based) is drawn in: pdf.py 83-101
DrawnRect(idx, doc, pageH, margin, gutter, c, cw, ch) ==
    LET r == idx \div c
        q == idx % c
        dw == SizeOrOne(doc[1])
        dh == SizeOrOne(doc[2])
        scale == ScaleToFit(cw, ch, dw, dh)
        draw_w == RMul(dw, scale)
        draw_h == RMul(dh, scale)
        x_cell_left == RAdd(RInt(margin), RMul(RInt(q), RAdd(cw, RInt(gutter))))
        y_cell_top == RSub(RInt(pageH - margin), RMul(RInt(r), RAdd(ch, RInt(gutter))))
        offset_x == RAdd(x_cell_left, RDiv(RSub(cw, draw_w), RInt(2)))
        offset_y == RSub(RSub(y_cell_top, draw_h), RDiv(RSub(ch, draw_h), RInt(2)))
    IN [r |-> r, q |-> q, scale |-> scale, x |-> offset_x, y |-> offset_y,
        w |-> draw_w, h |-> draw_h, dw |-> dw, dh |-> dh]

(***************************************************************************)
(* Grid composer: inputs and specification                                 *)
(***************************************************************************)
MaxCols == 3
MaxDocs == 3

\* intrinsic sizes (width, height) of the documents, in millimetres
DocSizes == { <<40, 20>>, <<100, 150>>, <<0, 30>> }

PageTags == { "A4", "LETTER", "A3", "B5" }
Margins == { 0, 10, 110 }
Gutters == { 0, 6, 150 }

GridInit ==
    /\ pageSize \in PageTags
    /\ colsArg \in (0 - 1)..MaxCols
    /\ marginMm \in Margins
    /\ gutterMm \in Gutters
    /\ docs \in SeqsUpTo(DocSizes, MaxDocs)
    /\ gpc = "start"
    /\ gcols = 0
    /\ grows = 0
    /\ cellW = <<0, 1>>
    /\ cellH = <<0, 1>>
    /\ drawn = <<>>
    /\ DecIdle
    /\ FillIdle
    /\ BatchIdle

\* pdf.py 66-80: the page, the clamped column count, the rows, the cell size.
\* A division by zero ends the call with ZeroDivisionError.
Layout ==
    /\ gpc = "start"
    /\ gcols' = ClampCols(colsArg)
    /\ grows' = RowsFor(Len(docs), ClampCols(colsArg))
    /\ IF ClampCols(colsArg) = 0 \/ RowsFor(Len(docs), ClampCols(colsArg)) = 0
       THEN /\ gpc' = "zero_division"
            /\ UNCHANGED <<cellW, cellH>>
       ELSE /\ gpc' = "draw"
            /\ cellW' = CellSize(PageOf(pageSize)[1], marginMm, gutterMm, ClampCols(colsArg))
            /\ cellH' = CellSize(PageOf(pageSize)[2], marginMm, gutterMm,
                                 RowsFor(Len(docs), ClampCols(colsArg)))
    /\ UNCHANGED <<pageSize, colsArg, marginMm, gutterMm, docs, drawn,
                   decVars, fillVars, batchVars>>

\* pdf.py 82-108: one turn of the loop over the documents
DrawDoc ==
    /\ gpc = "draw"
    /\ Len(drawn) < Len(docs)
    /\ drawn' = Append(drawn,
                       DrawnRect(Len(drawn), docs[Len(drawn) + 1], PageOf(pageSize)[2],
                                 marginMm, gutterMm, gcols, cellW, cellH))
    /\ UNCHANGED <<pageSize, colsArg, marginMm, gutterMm, docs, gpc, gcols, grows, cellW,
                   cellH, decVars, fillVars, batchVars>>

\* pdf.py 110-112: the page is finished and the bytes returned
FinishPage ==
    /\ gpc = "draw"
    /\ Len(drawn) = Len(docs)
    /\ gpc' = "done"
    /\ UNCHANGED <<pageSize, colsArg, marginMm, gutterMm, docs, gcols, grows, cellW, cellH,
                   drawn, decVars, fillVars, batchVars>>

GridNext == Layout \/ DrawDoc \/ FinishPage

SpecGrid == GridInit /\ [][GridNext]_vars

(***************************************************************************)
(* C7, C8: the grid composer                                               *)
(***************************************************************************)
\* C7: for every column count (zero and negative ones are clamped to 1),
\* every document count and every non-negative margin and gutter on a
\* supported page size, svgs_grid_to_pdf never divides by zero and the cell
\* width and cell height are never negative.
C7_NoZeroDivisionNoNegativeCell ==
    (pageSize \in DOMAIN PAGES /\ marginMm >= 0 /\ gutterMm >= 0) =>
        /\ gpc # "zero_division"
        /\ gpc \in {"draw", "done"} => (RLe(RInt(0), cellW) /\ RLe(RInt(0), cellH))

\* ceil(n / c) for n >= 0 and c >= 1
CeilDiv(n, c) == CHOOSE k \in 0..n : k * c >= n /\ (k = 0 \/ (k - 1) * c < n)

\* the case C8 is about: the layout is computed for a positive column count,
\* the cell has a positive width and height, every document a positive size
GridValid ==
    /\ gpc \in {"draw", "done"}
    /\ colsArg >= 1
    /\ marginMm >= 0
    /\ gutterMm >= 0
    /\ RLt(RInt(0), cellW)
    /\ RLt(RInt(0), cellH)
    /\ \A i \in 1..Len(docs) : docs[i][1] > 0 /\ docs[i][2] > 0

\* the cell at row r, column q of the grid: left, right, bottom and top edge
CellLeft(q) == RAdd(RInt(marginMm), RMul(RInt(q), RAdd(cellW, RInt(gutterMm))))
CellRight(q) == RAdd(CellLeft(q), cellW)
CellTop(r) ==
    RSub(RInt(PageOf(pageSize)[2] - marginMm), RMul(RInt(r), RAdd(cellH, RInt(gutterMm))))
CellBottom(r) == RSub(CellTop(r), cellH)

\* document i (1-based) is drawn scaled uniformly by
\* min(cell_w / width, cell_h / height) and centred in the cell at row
\* (i - 1) div columns, column (i - 1) mod columns, inside that cell
DrawnInOwnCell(i) ==
    LET d == drawn[i]
        r == (i - 1) \div colsArg
        q == (i - 1) % colsArg
        dw == RInt(docs[i][1])
        dh == RInt(docs[i][2])
    IN /\ d.r = r /\ d.q = q
       /\ d.w = RMul(dw, d.scale) /\ d.h = RMul(dh, d.scale)
       /\ RLe(d.w, cellW) /\ RLe(d.h, cellH)
       /\ (d.w = cellW \/ d.h = cellH)
       /\ RLe(CellLeft(q), d.x) /\ RLe(RAdd(d.x, d.w), CellRight(q))
       /\ RLe(CellBottom(r), d.y) /\ RLe(RAdd(d.y, d.h), CellTop(r))
       /\ RSub(d.x, CellLeft(q)) = RSub(CellRight(q), RAdd(d.x, d.w))
       /\ RSub(d.y, CellBottom(r)) = RSub(CellTop(r), RAdd(d.y, d.h))

\* the rectangles of documents i and j have no interior point in common
Disjoint(i, j) ==
    LET a == drawn[i]
        b == drawn[j]
    IN \/ RLe(RAdd(a.x, a.w), b.x)
       \/ RLe(RAdd(b.x, b.w), a.x)
       \/ RLe(RAdd(a.y, a.h), b.y)
       \/ RLe(RAdd(b.y, b.h), a.y)

DrawnApart ==
    /\ \A i \in 1..Len(drawn) : DrawnInOwnCell(i)
    /\ \A i, j \in 1..Len(drawn) : i # j => Disjoint(i, j)

\* C8 (as stated): for every count of documents, rows = ceil(count/columns),
\* every document is drawn scaled to fit and centred in its own cell, and
\* the rectangles of two documents never overlap.
C8_CeilRowsEveryCount ==
    GridValid => (grows = CeilDiv(Len(docs), colsArg) /\ DrawnApart)

\* C8 (amended): for every count of documents >= 1, rows =
\* ceil(count/columns), and for no document rows = 1; every document is
\* drawn scaled to fit and centred in its own cell, and the rectangles of two
\* documents never overlap.
C8_CeilRowsFromOne ==
    GridValid =>
        /\ Len(docs) >= 1 => grows = CeilDiv(Len(docs), colsArg)
        /\ Len(docs) = 0 => grows = 1
        /\ DrawnApart

\* three documents were drawn in two columns and two rows, one of them
\* scaled down and one scaled up
C8_Witness ==
    /\ gpc = "done"
    /\ GridValid
    /\ colsArg = 2
    /\ grows = 2
    /\ Len(drawn) = 3
    /\ \E i \in 1..3 : RLt(drawn[i].scale, RInt(1))
    /\ \E i \in 1..3 : RLt(RInt(1), drawn[i].scale)
    /\ DrawnApart

====
